---- MODULE Spec2Model ----
(***************************************************************************)
(* Model of src/src/server.ts: the Chat agent's webhook ingestion          *)
(* (onRequest, handleEvent over the events table created by onStart) and   *)
(* the step-bounded chat response stream (onChatMessage).                  *)
(*                                                                         *)
(* JavaScript runs a handler to its next await without interruption, so    *)
(* one action is the code between two awaits.  Deliveries run in Slots;    *)
(* a slot is free again once its delivery has been answered.               *)
(***************************************************************************)
EXTENDS Integers, Sequences, FiniteSets, TLC

\* ---- bounds of the model ------------------------------------------------
\* number of deliveries that can be in flight at the same time
MaxInFlight == 2

Slots == 1..MaxInFlight

\* ---- input domains ------------------------------------------------------
\* request.headers.get(...) returns null when the header is absent
NoHeader == "<null>"

Methods == {"POST", "GET"}

\* type arguments of handleEvent(type: string, ...)
EventTypes == {"push", "issues"}

\* what request.headers.get("X-Event-Type") can return
HeaderTypes == {NoHeader, "push"}

\* values the identifier eventId can stand for in handleEvent
EventIds == {"abc123", "def456"}

\* raw request bodies: one JSON text and one text JSON.parse rejects
Bodies == {"{}", "oops"}

\* the pre-shared signing secret
Secret == "k1"

\* keyed message authentication code of a body, hex-encoded
Mac(key, body) == key \o ":" \o body

Malformed == "zz"

Signatures == {NoHeader, Malformed} \cup {Mac(Secret, b) : b \in Bodies}

\* the requests delivered: every method, header and signature with the JSON
\* body; the body that is no JSON text with its own signature, the one case
\* in which it reaches JSON.parse
Requests == {r \in [method : Methods, eventType : HeaderTypes,
                    signature : Signatures, body : Bodies] :
               r.body = "oops" => r.signature = Mac(Secret, "oops")}

NoRequest == [method |-> "-", eventType |-> "-", signature |-> "-", body |-> "-"]

\* the handleEvent activation: its type argument and the eventId it refers to
NoFrame == [id |-> "-", type |-> "-"]

\* what is known of a delivery once it has been answered
NoDelivery == [req |-> NoRequest, frame |-> NoFrame, status |-> 0, outcome |-> "none"]

\* ---- the Worker's fetch handler ------------------------------------------
\* bound: console.error lines kept
MaxLog == 3

\* an environment variable that is not set
Unset == "<unset>"

\* values of process.env.GOOGLE_GENERATIVE_AI_API_KEY
KeyValues == {Unset, "", "key-1"}

\* values of the signing secret in the environment
SecretValues == {Unset, Secret}

CheckPath == "/check-open-ai-key"

\* paths routeAgentRequest serves, and one it does not
AgentPath == "/agents/chat/default"

Paths == {CheckPath, AgentPath, "/favicon.ico"}

KeyMissing == "GOOGLE_GENERATIVE_AI_API_KEY is not set"

SecretMissing == "signing secret is not set"

NoFetch == [path |-> "-", env |-> [apiKey |-> Unset, secret |-> Unset],
            kind |-> "none", success |-> FALSE, logged |-> {}]

VARIABLES
  events,        \* the events table, rows in insertion order
  pc,            \* per slot: where the delivery's handler is suspended
  req,           \* per slot: the Request given to onRequest
  frame,         \* per slot: the handleEvent activation
  last,          \* the delivery answered most recently: its request, its
                 \* handleEvent activation, the status of the Response
                 \* (0: the handler threw) and how it ended
  insertedIds,   \* history: ids for which an INSERT has succeeded
  failedIds,     \* history: ids for which payload processing has failed
  processedIds,  \* history: ids whose payload processing has succeeded
  reprocessedIds,\* history: ids whose payload processing has succeeded twice
  chatPc,        \* where the chat response stream is
  steps,         \* model steps the current streamText call has completed
  chunks,        \* chunks the current response stream has emitted
  messages,      \* this.messages, the stored conversation history
  modelInput,    \* the messages given to the current streamText call
  cancel,        \* the caller's abort signal: "none", "armed", "triggered"
  linked,        \* whether streamText was given the caller's abort signal
  finishCalls,   \* calls of onFinish made for the current stream
  env,           \* the Worker's environment: API key and signing secret
  errorLog,      \* console.error lines of fetch, each with its request's path
  fetchLast      \* the request fetch answered most recently and its answer

vars == <<events, pc, req, frame, last,
          insertedIds, failedIds, processedIds, reprocessedIds,
          chatPc, steps, chunks, messages, modelInput, cancel, linked,
          finishCalls, env, errorLog, fetchLast>>

fetchVars == <<env, errorLog, fetchLast>>

hist == <<insertedIds, failedIds, processedIds, reprocessedIds>>

hookVars == <<events, pc, req, frame, last>>

chatVars == <<chatPc, steps, chunks, messages, modelInput, cancel, linked,
              finishCalls>>

\* ---- the events table (onStart) ----------------------------------------
\* number of rows of the table with the given id
Count(tbl, id) == Cardinality({i \in 1..Len(tbl) : tbl[i].id = id})

\* SELECT id FROM events WHERE id = ${eventId}
SelectById(tbl, id) == SelectSeq(tbl, LAMBDA r : r.id = id)

\* variant: the duplicate test is off by one (existing.length > 1)
AlreadyProcessedOffByOne(existing) == Len(existing) > 1

\* existing.length > 0
AlreadyProcessed(existing) == Len(existing) > 0

\* variant: the table is created without the PRIMARY KEY constraint
NoPrimaryKey(tbl, row) == TRUE

\* id TEXT PRIMARY KEY
PrimaryKeyOk(tbl, row) == \A i \in 1..Len(tbl) : tbl[i].id # row.id

\* variant: the type column is created without NOT NULL
NullableType(row) == TRUE

\* type TEXT NOT NULL
NotNullOk(row) == row.type # NoHeader

\* the row INSERT INTO events (id, ...) VALUES (${eventId}, ...) writes
NewRow(f) == [id |-> f.id, type |-> f.type]

\* the table after a successful INSERT
InsertInto(tbl, row) == Append(tbl, row)

\* variant: the method test is missing
AnyMethodAllowed(m) == TRUE

\* ---- onRequest helpers --------------------------------------------------
\* request.method !== "POST" is answered 405
MethodAllowed(m) == m = "POST"

\* this.verifySignature(body, signature)
VerifySignature(body, signature) ==
  /\ signature # NoHeader
  /\ signature # Malformed
  /\ signature = Mac(Secret, body)

\* variant: the body is handed on without JSON.parse
JsonParsesAnything(body) == TRUE

\* JSON.parse(body) returns (TRUE) or throws (FALSE)
JsonParses(body) == body = "{}"

Init ==
  /\ events = <<>>
  /\ pc = [s \in Slots |-> "idle"]
  /\ req = [s \in Slots |-> NoRequest]
  /\ frame = [s \in Slots |-> NoFrame]
  /\ last = NoDelivery
  /\ insertedIds = {}
  /\ failedIds = {}
  /\ processedIds = {}
  /\ reprocessedIds = {}
  /\ chatPc = "idle"
  /\ steps = 0
  /\ chunks = <<>>
  /\ messages = <<>>
  /\ modelInput = <<>>
  /\ cancel = "none"
  /\ linked = FALSE
  /\ finishCalls = 0
  /\ env = [apiKey |-> "key-1", secret |-> Secret]
  /\ errorLog = <<>>
  /\ fetchLast = NoFetch

\* the delivery (r, f) in slot s is answered with status st (0: the handler
\* threw); the slot serves the next delivery
Finish(s, r, f, st, how) ==
  /\ last' = [req |-> r, frame |-> f, status |-> st, outcome |-> how]
  /\ pc' = [pc EXCEPT ![s] = "idle"]
  /\ req' = [req EXCEPT ![s] = NoRequest]
  /\ frame' = [frame EXCEPT ![s] = NoFrame]

\* ---- onRequest ----------------------------------------------------------
\* a request arrives; a method other than POST is answered 405 at once
RejectMethod(s) ==
  \E r \in Requests :
    /\ pc[s] = "idle"
    /\ ~MethodAllowed(r.method)
    /\ Finish(s, r, NoFrame, 405, "method")
    /\ UNCHANGED events

\* a POST arrives; the handler reads the headers and awaits the body text
\* and the signature verification
AcceptPost(s) ==
  \E r \in Requests :
    /\ pc[s] = "idle"
    /\ MethodAllowed(r.method)
    /\ req' = [req EXCEPT ![s] = r]
    /\ pc' = [pc EXCEPT ![s] = "verify"]
    /\ UNCHANGED <<events, frame, last>>

\* verification returned false: 401
RejectSignature(s) ==
  /\ pc[s] = "verify"
  /\ ~VerifySignature(req[s].body, req[s].signature)
  /\ Finish(s, req[s], NoFrame, 401, "unauthorized")
  /\ UNCHANGED events

\* verification returned true and JSON.parse(body) throws
ParseFail(s) ==
  /\ pc[s] = "verify"
  /\ VerifySignature(req[s].body, req[s].signature)
  /\ ~JsonParses(req[s].body)
  /\ Finish(s, req[s], NoFrame, 0, "parse-threw")
  /\ UNCHANGED events

\* variant: the duplicate is not inserted but its stored row is rewritten
SkipDuplicateRewrite(s, r, f) ==
  /\ AlreadyProcessed(SelectById(events, f.id))
  /\ events' = [i \in 1..Len(events) |->
                  IF events[i].id = f.id THEN NewRow(f) ELSE events[i]]
  /\ Finish(s, r, f, 200, "skipped")

\* ---- handleEvent --------------------------------------------------------
\* handleEvent(type, payload) up to its await: the SELECT finds a row and
\* the handler returns, so that its caller answers 200
SkipDuplicate(s, r, f) ==
  /\ AlreadyProcessed(SelectById(events, f.id))
  /\ Finish(s, r, f, 200, "skipped")
  /\ UNCHANGED events

\* handleEvent(type, payload) up to its await: the SELECT finds nothing and
\* the handler starts processPayload
StartProcessing(s, r, f) ==
  /\ ~AlreadyProcessed(SelectById(events, f.id))
  /\ req' = [req EXCEPT ![s] = r]
  /\ frame' = [frame EXCEPT ![s] = f]
  /\ pc' = [pc EXCEPT ![s] = "processing"]
  /\ UNCHANGED <<events, last>>

\* variant: the result of the verification is not looked at
AuthenticatedUnchecked(s) ==
  /\ pc[s] = "verify"
  /\ JsonParses(req[s].body)

\* onRequest, verification returned true: parse the body, call handleEvent
Authenticated(s) ==
  /\ pc[s] = "verify"
  /\ VerifySignature(req[s].body, req[s].signature)
  /\ JsonParses(req[s].body)

RequestSkip(s) ==
  \E id \in EventIds :
    /\ Authenticated(s)
    /\ SkipDuplicate(s, req[s], [id |-> id, type |-> req[s].eventType])

\* variant: the verification is not awaited, its promise always counts as true
RequestProcessUnawaited(s) ==
  \E id \in EventIds :
    /\ pc[s] = "verify"
    /\ JsonParses(req[s].body)
    /\ StartProcessing(s, req[s], [id |-> id, type |-> req[s].eventType])

RequestProcess(s) ==
  \E id \in EventIds :
    /\ Authenticated(s)
    /\ StartProcessing(s, req[s], [id |-> id, type |-> req[s].eventType])

\* variant: the failure is recorded as a success (INSERT in a finally block)
ProcessFailRecorded(s) ==
  /\ pc[s] = "processing"
  /\ events' = InsertInto(events, NewRow(frame[s]))
  /\ Finish(s, req[s], frame[s], 0, "process-threw")

\* variant: the failure is caught and the delivery answered 200
ProcessFailMasked(s) ==
  /\ pc[s] = "processing"
  /\ Finish(s, req[s], frame[s], 200, "process-threw")
  /\ UNCHANGED events

\* processPayload rejects: handleEvent throws before its INSERT
ProcessFail(s) ==
  /\ pc[s] = "processing"
  /\ Finish(s, req[s], frame[s], 0, "process-threw")
  /\ UNCHANGED events

\* variant: INSERT OR REPLACE, a row with the same id is overwritten
InsertOrReplace(s) ==
  /\ pc[s] = "processing"
  /\ NotNullOk(NewRow(frame[s]))
  /\ events' = IF PrimaryKeyOk(events, NewRow(frame[s]))
               THEN InsertInto(events, NewRow(frame[s]))
               ELSE [i \in 1..Len(events) |->
                       IF events[i].id = frame[s].id THEN NewRow(frame[s])
                       ELSE events[i]]
  /\ Finish(s, req[s], frame[s], 200, "processed")

\* processPayload resolves and the INSERT is accepted: 200
InsertOk(s) ==
  /\ pc[s] = "processing"
  /\ PrimaryKeyOk(events, NewRow(frame[s]))
  /\ NotNullOk(NewRow(frame[s]))
  /\ events' = InsertInto(events, NewRow(frame[s]))
  /\ Finish(s, req[s], frame[s], 200, "processed")

\* processPayload resolves and the INSERT violates a constraint: it throws
InsertFail(s) ==
  /\ pc[s] = "processing"
  /\ ~(PrimaryKeyOk(events, NewRow(frame[s])) /\ NotNullOk(NewRow(frame[s])))
  /\ Finish(s, req[s], frame[s], 0, "insert-threw")
  /\ UNCHANGED events

\* ---- handleEvent called on its own --------------------------------------
\* handleEvent(type: string, payload) with arguments of its declared types
CallSkip(s) ==
  \E id \in EventIds, t \in EventTypes :
    /\ pc[s] = "idle"
    /\ SkipDuplicate(s, NoRequest, [id |-> id, type |-> t])

CallProcess(s) ==
  \E id \in EventIds, t \in EventTypes :
    /\ pc[s] = "idle"
    /\ StartProcessing(s, NoRequest, [id |-> id, type |-> t])

Next ==
  \E s \in Slots :
    \/ RejectMethod(s) /\ UNCHANGED <<hist, chatVars, fetchVars>>
    \/ AcceptPost(s) /\ UNCHANGED <<hist, chatVars, fetchVars>>
    \/ RejectSignature(s) /\ UNCHANGED <<hist, chatVars, fetchVars>>
    \/ ParseFail(s) /\ UNCHANGED <<hist, chatVars, fetchVars>>
    \/ RequestSkip(s) /\ UNCHANGED <<hist, chatVars, fetchVars>>
    \/ RequestProcess(s) /\ UNCHANGED <<hist, chatVars, fetchVars>>
    \/ ProcessFail(s) /\ UNCHANGED <<hist, chatVars, fetchVars>>
    \/ InsertOk(s) /\ UNCHANGED <<hist, chatVars, fetchVars>>
    \/ InsertFail(s) /\ UNCHANGED <<hist, chatVars, fetchVars>>

\* webhook deliveries through onRequest
Spec == Init /\ [][Next]_vars

\* ---- history of the handleEvent calls -----------------------------------
\* the step ends slot s's payload processing with the given outcome
Ended(s, how) ==
  /\ pc[s] = "processing"
  /\ pc'[s] = "idle"
  /\ last'.outcome = how

\* processPayload resolved in this step of slot s
Resolved(s) == Ended(s, "processed") \/ Ended(s, "insert-threw")

\* what the step of slot s adds to the history
History(s) ==
  /\ insertedIds' = IF Ended(s, "processed")
                    THEN insertedIds \cup {frame[s].id} ELSE insertedIds
  /\ failedIds' = IF Ended(s, "process-threw")
                  THEN failedIds \cup {frame[s].id} ELSE failedIds
  /\ processedIds' = IF Resolved(s)
                     THEN processedIds \cup {frame[s].id} ELSE processedIds
  /\ reprocessedIds' = IF Resolved(s) /\ frame[s].id \in processedIds
                       THEN reprocessedIds \cup {frame[s].id} ELSE reprocessedIds

NextHandle ==
  \E s \in Slots :
    \/ CallSkip(s) /\ History(s) /\ UNCHANGED <<chatVars, fetchVars>>
    \/ CallProcess(s) /\ History(s) /\ UNCHANGED <<chatVars, fetchVars>>
    \/ ProcessFail(s) /\ History(s) /\ UNCHANGED <<chatVars, fetchVars>>
    \/ InsertOk(s) /\ History(s) /\ UNCHANGED <<chatVars, fetchVars>>
    \/ InsertFail(s) /\ History(s) /\ UNCHANGED <<chatVars, fetchVars>>

\* deliveries given straight to handleEvent
SpecHandle == Init /\ [][NextHandle]_vars

\* ---- onChatMessage -----------------------------------------------------
\* stopWhen: stepCountIs(10)
MaxSteps == 10

\* bound: turns the conversation history can hold
MaxTurns == 3

\* texts of the turns
Descriptions == {"backup"}

TaskText(description) == "Running scheduled task: " \o description

\* a turn: role, text and the state of its tool call, if it has one
UserTurnOf(text) == [role |-> "user", text |-> text, tool |-> "none"]

AssistantTurn(text, tool) == [role |-> "assistant", text |-> text, tool |-> tool]

\* the turn has a tool call without tool result
Dangling(m) == m.tool \in {"pending-registered", "pending-unregistered"}

\* cleanupMessages(this.messages): a new list in which the tool calls that
\* nothing can resolve are removed from their turns
CleanupMessages(msgs) ==
  [i \in 1..Len(msgs) |->
     IF msgs[i].tool = "pending-unregistered"
     THEN [msgs[i] EXCEPT !.tool = "none"] ELSE msgs[i]]

\* variant: a failing execution handler makes processToolCalls throw
ThrowsOnFailure(msgs, ok) ==
  ~ok /\ \E i \in 1..Len(msgs) : msgs[i].tool = "pending-registered"

\* whether processToolCalls throws when an execution handler fails
HandlerFailureThrows(msgs, ok) == FALSE

\* processToolCalls({messages, ...}): a new list in which each pending call
\* with a registered execution handler has the handler's result, or an error
\* result when the handler failed (ok = FALSE)
ProcessToolCalls(msgs, ok) ==
  [i \in 1..Len(msgs) |->
     IF msgs[i].tool = "pending-registered"
     THEN [msgs[i] EXCEPT !.tool = IF ok THEN "result" ELSE "error"]
     ELSE msgs[i]]

\* convertToModelMessages: role and content of each turn
ConvertToModelMessages(msgs) ==
  [i \in 1..Len(msgs) |->
     [role |-> msgs[i].role, content |-> msgs[i].text, tool |-> msgs[i].tool]]

\* variant: the stored history is given to the model as it is
ModelInputRaw(msgs, ok) == ConvertToModelMessages(msgs)

\* the messages argument of streamText
ModelInput(msgs, ok) ==
  ConvertToModelMessages(ProcessToolCalls(CleanupMessages(msgs), ok))

\* variant: the cleaned list is written back to this.messages
HistoryCleaned(msgs) == CleanupMessages(msgs)

\* this.messages after the stream's execute function has prepared the call
HistoryKept(msgs) == msgs

\* variant: the abort signal is not handed to streamText
SignalDropped(given) == FALSE

\* abortSignal: options?.abortSignal
SignalLinked(given) == given

\* variant: the task turn replaces the history (...this.messages forgotten)
TaskHistoryOnly(msgs, description) == <<UserTurnOf(TaskText(description))>>

\* the list executeTask gives to saveMessages
TaskHistory(msgs, description) == Append(msgs, UserTurnOf(TaskText(description)))

\* variant: the stop condition never holds
StepCountNever(n, done) == FALSE

\* stepCountIs(n) applied to the steps completed so far
StepCountIs(n, done) == done = n

\* the chunks that close the stream
Finished(out) == Append(out, "finish")

\* the abort signal streamText holds has been triggered
Cancelled == linked /\ cancel = "triggered"

\* a response stream is producing
Streaming == chatPc \in {"model", "tools"}

\* onFinish(turn): the assembled turn is handed over and stored
OnFinish(turn) ==
  /\ finishCalls' = finishCalls + 1
  /\ messages' = Append(messages, turn)

\* onChatMessage(onFinish, options): the stream is created, its execute
\* function prepares the messages and streamText makes its first model call
StartStream(given) ==
  \E ok \in BOOLEAN :
    /\ ~Streaming
    /\ Len(messages) < MaxTurns
    /\ messages' = HistoryKept(messages)
    /\ steps' = 0
    /\ finishCalls' = 0
    /\ cancel' = IF given THEN "armed" ELSE "none"
    /\ linked' = SignalLinked(given)
    /\ IF HandlerFailureThrows(CleanupMessages(messages), ok)
       THEN /\ chatPc' = "crashed"
            /\ modelInput' = <<>>
            /\ chunks' = <<"start", "error">>
       ELSE /\ chatPc' = "model"
            /\ modelInput' = ModelInput(messages, ok)
            /\ chunks' = <<"start">>
    /\ UNCHANGED <<hookVars, hist, fetchVars>>

\* onChatMessage without options
StartChat == StartStream(FALSE)

\* onChatMessage with options.abortSignal
StartChatWithSignal == StartStream(TRUE)

\* the model answers with text and no tool call: the last step
ModelFinal ==
  /\ chatPc = "model"
  /\ ~Cancelled
  /\ steps' = steps + 1
  /\ chunks' = Finished(Append(chunks, "text-delta"))
  /\ chatPc' = "done"
  /\ OnFinish(AssistantTurn("answer", "none"))
  /\ UNCHANGED <<modelInput, cancel, linked, hookVars, hist, fetchVars>>

\* the model answers with a tool call, after some text or none
ModelToolCall ==
  \E text \in BOOLEAN :
    /\ chatPc = "model"
    /\ ~Cancelled
    /\ steps' = steps + 1
    /\ chunks' = (IF text THEN Append(chunks, "text-delta") ELSE chunks)
                   \o <<"tool-call">>
    /\ chatPc' = "tools"
    /\ UNCHANGED <<messages, modelInput, cancel, linked, finishCalls,
                   hookVars, hist, fetchVars>>

\* the model calls a tool that has no execute function (it waits for a
\* human decision): no tool runs, the step is the last one and the turn is
\* stored with its call pending
ModelPending ==
  \E tool \in {"pending-registered", "pending-unregistered"} :
    /\ chatPc = "model"
    /\ ~Cancelled
    /\ steps' = steps + 1
    /\ chunks' = Finished(Append(chunks, "tool-call"))
    /\ chatPc' = "done"
    /\ OnFinish(AssistantTurn("", tool))
    /\ UNCHANGED <<modelInput, cancel, linked, hookVars, hist, fetchVars>>

\* the tool has run and the stop condition does not hold: next model call
ToolContinue ==
  /\ chatPc = "tools"
  /\ ~Cancelled
  /\ ~StepCountIs(MaxSteps, steps)
  /\ chunks' = Append(chunks, "tool-result")
  /\ chatPc' = "model"
  /\ UNCHANGED <<steps, messages, modelInput, cancel, linked, finishCalls,
                 hookVars, hist, fetchVars>>

\* the tool has run and the stop condition holds: the stream ends
ToolStop ==
  /\ chatPc = "tools"
  /\ ~Cancelled
  /\ StepCountIs(MaxSteps, steps)
  /\ chunks' = Finished(Append(chunks, "tool-result"))
  /\ chatPc' = "done"
  /\ OnFinish(AssistantTurn("", "result"))
  /\ UNCHANGED <<steps, modelInput, cancel, linked, hookVars, hist, fetchVars>>

\* the caller triggers its abort signal
Abort ==
  /\ cancel = "armed"
  /\ cancel' = "triggered"
  /\ UNCHANGED <<chatPc, steps, chunks, messages, modelInput, linked,
                 finishCalls, hookVars, hist, fetchVars>>

\* streamText sees its signal triggered: the model call is aborted and the
\* stream stops
AbortStream ==
  /\ Streaming
  /\ Cancelled
  /\ chatPc' = "aborted"
  /\ UNCHANGED <<steps, chunks, messages, modelInput, cancel, linked,
                 finishCalls, hookVars, hist, fetchVars>>

\* room left in the history, one place kept for a stream's answer
Room == MaxTurns - Len(messages) - (IF Streaming THEN 1 ELSE 0)

\* a user turn arrives and is stored
UserTurn ==
  /\ Room > 0
  /\ messages' = Append(messages, UserTurnOf("hi"))
  /\ UNCHANGED <<chatPc, steps, chunks, modelInput, cancel, linked,
                 finishCalls, hookVars, hist, fetchVars>>

\* executeTask(description, task)
ExecuteTask ==
  \E d \in Descriptions :
    /\ Room > 0
    /\ messages' = TaskHistory(messages, d)
    /\ UNCHANGED <<chatPc, steps, chunks, modelInput, cancel, linked,
                   finishCalls, hookVars, hist, fetchVars>>

NextChat ==
  \/ StartChat
  \/ ModelFinal
  \/ ModelToolCall
  \/ ToolContinue
  \/ ToolStop

\* the chat response stream; every model call and every tool run completes
SpecChat ==
  /\ Init
  /\ [][NextChat]_vars
  /\ WF_vars(ModelFinal \/ ModelToolCall)
  /\ WF_vars(ToolContinue \/ ToolStop)

NextCancel ==
  \/ StartChatWithSignal
  \/ ModelFinal
  \/ ModelToolCall
  \/ ToolContinue
  \/ ToolStop
  \/ Abort
  \/ AbortStream

\* chat response streams whose caller can abort them
SpecCancel == Init /\ [][NextCancel]_vars

NextTurns ==
  \/ UserTurn
  \/ ExecuteTask
  \/ StartChat
  \/ ModelFinal
  \/ ModelPending

\* the conversation history over user turns, scheduled tasks and chats
SpecTurns == Init /\ [][NextTurns]_vars

\* ---- fetch ----------------------------------------------------------------
\* !!process.env.GOOGLE_GENERATIVE_AI_API_KEY
HasKey(e) == e.apiKey # Unset /\ e.apiKey # ""

\* routeAgentRequest(request, env) returns a Response (TRUE) or null (FALSE)
Routes(path) == path = AgentPath

\* what fetch writes with console.error for a path other than CheckPath
Reported(e) == IF HasKey(e) THEN {} ELSE {KeyMissing}

\* the environment is set up anew (.dev.vars, wrangler secret bulk)
Deploy ==
  /\ env' \in [apiKey : KeyValues, secret : SecretValues]
  /\ UNCHANGED <<errorLog, fetchLast, hookVars, hist, chatVars>>

\* fetch of /check-open-ai-key: answers { success: hasOpenAIKey }
FetchCheckKey ==
  /\ fetchLast' = [path |-> CheckPath, env |-> env, kind |-> "json",
                   success |-> HasKey(env), logged |-> {}]
  /\ UNCHANGED <<env, errorLog, hookVars, hist, chatVars>>

\* fetch of another path: logs a missing API key, then routes the request to
\* the agent or answers 404
FetchRoute ==
  \E p \in Paths \ {CheckPath} :
    /\ Len(errorLog) < MaxLog
    /\ errorLog' = errorLog \o [i \in 1..Cardinality(Reported(env)) |->
                                  [msg |-> KeyMissing, path |-> p]]
    /\ fetchLast' = [path |-> p, env |-> env,
                     kind |-> IF Routes(p) THEN "agent" ELSE "not-found",
                     success |-> FALSE, logged |-> Reported(env)]
    /\ UNCHANGED <<env, hookVars, hist, chatVars>>

NextFetch ==
  \/ Deploy
  \/ FetchCheckKey
  \/ FetchRoute

\* requests to the Worker's fetch handler
SpecFetch == Init /\ [][NextFetch]_vars

\* ---- properties ----------------------------------------------------------
\* number of chunks of the given kind
Emitted(out, kind) == Cardinality({i \in 1..Len(out) : out[i] = kind})

\* no delivery of the id is between its SELECT and its answer
Quiet(id) == \A s \in Slots : frame[s].id # id

\* the signature header is absent, malformed or not the MAC of the body
BadSignature(r) ==
  \/ r.signature = NoHeader
  \/ r.signature = Malformed
  \/ r.signature # Mac(Secret, r.body)

\* C1: once a handleEvent call for an id has been processed and stored, the
\* table holds exactly one row with that id and no later call for that id
\* takes the processing branch: it is skipped as already processed.
C1_Idempotence ==
  /\ [](\A id \in insertedIds : Count(events, id) = 1)
  /\ [][\A s \in Slots :
          pc[s] = "idle" /\ pc'[s] = "processing"
            => frame'[s].id \notin insertedIds]_vars

C1_Witness ==
  /\ last.outcome = "skipped"
  /\ last.frame.id \in insertedIds
  /\ Count(events, last.frame.id) = 1

C4_AuthenticationTerminal ==
  /\ [](last.req.method = "POST" /\ BadSignature(last.req)
          => last.status = 401 /\ last.frame = NoFrame)
  /\ [](\A s \in Slots : pc[s] = "processing" => ~BadSignature(req[s]))
  /\ [][\A s \in Slots :
          pc[s] = "verify" /\ BadSignature(req[s]) /\ pc'[s] # "verify"
            => events' = events /\ pc'[s] = "idle" /\ last'.status = 401]_vars

C4_Witness ==
  /\ last.status = 401
  /\ last.req.body = "{}"
  /\ last.req.signature = Mac(Secret, "oops")

\* C5: a request whose method is not POST is answered 405 whatever its
\* headers and body are; it is never verified or handed to handleEvent, and
\* the step that answers it leaves the events table unchanged.
C5_MethodNotAllowed ==
  /\ [](last.req.method = "GET"
          => last.status = 405 /\ last.outcome = "method" /\ last.frame = NoFrame)
  /\ [](\A s \in Slots : req[s].method # "GET")
  /\ [][last' # last /\ last'.req.method = "GET" => events' = events]_vars

C5_Witness ==
  /\ last.status = 405
  /\ last.req.signature = NoHeader
  /\ last.req.method = "GET"

\* C6: a POST with a valid signature, a JSON body and an X-Event-Type header
\* is answered 200 when its id was not stored and its payload processing
\* succeeded, and when its id was stored already; the table then holds one
\* row with that id, whose type is the header's value.
C6_ValidPostAnswered200 ==
  ( /\ last.req.method = "POST"
    /\ ~BadSignature(last.req)
    /\ last.req.eventType # NoHeader
    /\ last.outcome \in {"processed", "insert-threw", "skipped"} )
  => /\ last.status = 200
     /\ Count(events, last.frame.id) = 1
     /\ \A i \in 1..Len(events) :
          events[i].id = last.frame.id => events[i].type = last.req.eventType

\* C7: a delivery whose payload processing failed is not answered 200, and
\* the step in which the processing fails writes no row.
C7_FailureNotMasked ==
  /\ [](last.outcome = "process-threw" => last.status # 200)
  /\ [][\A s \in Slots :
          pc[s] = "processing" /\ pc'[s] = "idle" /\ last'.outcome = "process-threw"
            => events' = events /\ last'.status = 0]_vars

C7_Witness ==
  /\ last.outcome = "process-threw"
  /\ last.status = 0
  /\ last.req.method = "POST"
  /\ Count(events, last.frame.id) = 0

\* C8: every row of the events table is still in the table, with all its
\* fields, after every step; the table never shrinks.
C8_AppendOnly ==
  [][/\ Len(events') >= Len(events)
     /\ \A i \in 1..Len(events) : events'[i] = events[i]]_vars

C8_Witness ==
  /\ last.outcome = "insert-threw"
  /\ Count(events, last.frame.id) = 1

\* C9: the payload of an id is processed successfully at most once.
C9_ProcessedAtMostOnce == reprocessedIds = {}

\* C10: the stream makes at most 10 model calls and as many tool runs, even
\* when every model step asks for a tool; a stream that has started ends;
\* an ended stream has "finish" as its last chunk and nowhere before; and a
\* model step without tool call ends the stream in that step.
C10_BoundedStreaming ==
  /\ [](steps <= MaxSteps /\ Emitted(chunks, "tool-call") <= MaxSteps)
  /\ [](chatPc = "done" <=> Emitted(chunks, "finish") = 1)
  /\ [](chatPc = "done" => chunks[Len(chunks)] = "finish")
  /\ [][steps' = steps + 1
            /\ Emitted(chunks', "tool-call") = Emitted(chunks, "tool-call")
          => chatPc' = "done"]_vars
  /\ (chatPc = "model") ~> (chatPc = "done")

C10_Witness ==
  /\ chatPc = "done"
  /\ steps = MaxSteps
  /\ Emitted(chunks, "tool-call") = MaxSteps
  /\ chunks[Len(chunks)] = "finish"

\* C17: a handleEvent call that finds a row of its id does not start
\* processPayload, and the step in which it returns changes neither the
\* events table nor the set of processed payloads.
C17_SkipHasNoEffect ==
  /\ [][\A s \in Slots :
          pc[s] = "idle" /\ pc'[s] = "processing"
            => Count(events, frame'[s].id) = 0]_vars
  /\ [][last' # last /\ last'.outcome = "skipped"
          => /\ events' = events
             /\ processedIds' = processedIds
             /\ \A s \in Slots : pc'[s] = "processing" => pc[s] = "processing"]_vars

C17_Witness ==
  /\ last.outcome = "skipped"
  /\ last.status = 200
  /\ \E i \in 1..Len(events) :
       events[i].id = last.frame.id /\ events[i].type # last.frame.type

\* C18: handleEvent is entered, the body parsed, and a row stored only for a
\* request whose signature verification returned true.
C18_VerifyBeforeParse ==
  /\ [](\A s \in Slots :
          pc[s] = "processing" => VerifySignature(req[s].body, req[s].signature))
  /\ [](last.outcome \in {"parse-threw", "skipped", "processed",
                          "process-threw", "insert-threw"}
          => VerifySignature(last.req.body, last.req.signature))
  /\ [][events' # events
          => VerifySignature(last'.req.body, last'.req.signature)]_vars

C18_Witness ==
  /\ last.outcome = "processed"
  /\ last.req.signature = Mac(Secret, last.req.body)
  /\ Count(events, last.frame.id) = 1

\* C19: a POST with a valid signature whose body is no JSON text ends in
\* JSON.parse: handleEvent is not entered, the response is not 200 and the
\* step leaves the events table unchanged.
C19_InvalidJsonFails ==
  /\ [](last.req.method = "POST" /\ ~BadSignature(last.req) /\ last.req.body = "oops"
          => last.outcome = "parse-threw" /\ last.status # 200 /\ last.frame = NoFrame)
  /\ [](\A s \in Slots : pc[s] = "processing" => req[s].body # "oops")
  /\ [][\A s \in Slots :
          pc[s] = "verify" /\ req[s].body = "oops" /\ pc'[s] # "verify"
            => events' = events /\ pc'[s] = "idle"]_vars

C19_Witness ==
  /\ last.outcome = "parse-threw"
  /\ last.req.body = "oops"
  /\ last.status = 0

\* C20: no row of the events table has a null type, and a delivery without
\* X-Event-Type header, which reaches handleEvent with a null type, never
\* stores a row.
C20_TypeNotNull ==
  /\ [](\A i \in 1..Len(events) : events[i].type # NoHeader)
  /\ [](last.req.eventType = NoHeader => last.outcome # "processed")
  /\ [][\A s \in Slots :
          pc[s] = "processing" /\ frame[s].type = NoHeader /\ pc'[s] = "idle"
            => events' = events]_vars

C20_Witness ==
  /\ last.outcome = "insert-threw"
  /\ last.req.eventType = NoHeader
  /\ last.frame.type = NoHeader
  /\ Count(events, last.frame.id) = 0

\* a is an initial part of b
IsPrefix(a, b) == Len(a) <= Len(b) /\ \A i \in 1..Len(a) : a[i] = b[i]

\* the step starts a new response stream
StreamStarts == ~Streaming /\ chatPc' \in {"model", "crashed"}

\* the step is one of the response stream
StreamStep == chatPc' # chatPc \/ chunks' # chunks \/ steps' # steps

\* C11: once the abort signal given to onChatMessage is triggered, the
\* stream emits no further chunk and completes no further model step, and
\* its model call can only end aborted; the chunks of a stream are never
\* taken back and the stored turns are never removed or changed.
C11_Cancellation ==
  /\ [][cancel = "triggered" /\ ~StreamStarts
          => chunks' = chunks /\ steps' = steps /\ chatPc' \in {chatPc, "aborted"}]_vars
  /\ [][~StreamStarts => IsPrefix(chunks, chunks')]_vars
  /\ [][IsPrefix(messages, messages')]_vars
  /\ [](chatPc = "aborted" => cancel = "triggered" /\ finishCalls = 0)

C11_Witness ==
  /\ chatPc = "aborted"
  /\ cancel = "triggered"
  /\ Emitted(chunks, "tool-result") > 0
  /\ Len(messages) > 0

\* C12: the messages given to the model have no tool call without result:
\* of each stored turn, a pending call with a registered execution handler
\* has become a result (or error result), a pending call without handler is
\* removed, and everything else is as stored.
C12_NoDanglingToolCall ==
  /\ [](\A i \in 1..Len(modelInput) : ~Dangling(modelInput[i]))
  /\ [][StreamStarts =>
          /\ Len(modelInput') = Len(messages)
          /\ \A i \in 1..Len(messages) :
               /\ modelInput'[i].role = messages[i].role
               /\ modelInput'[i].content = messages[i].text
               /\ messages[i].tool = "pending-registered"
                    => modelInput'[i].tool \in {"result", "error"}
               /\ messages[i].tool = "pending-unregistered"
                    => modelInput'[i].tool = "none"
               /\ ~Dangling(messages[i])
                    => modelInput'[i].tool = messages[i].tool]_vars

C12_Witness ==
  /\ chatPc = "model"
  /\ \E i, j \in 1..Len(modelInput) :
       /\ messages[i].tool = "pending-registered"
       /\ modelInput[i].tool = "result"
       /\ messages[j].tool = "pending-unregistered"
       /\ modelInput[j].tool = "none"

\* C13: a step of the response stream that does not end it leaves the
\* stored history unchanged, also the step that cleans the messages and
\* resolves the pending calls; the step that ends the stream calls onFinish,
\* once, and adds the assembled assistant turn at the end of the history.
C13_HistoryNotMutated ==
  /\ [][StreamStep /\ chatPc' # "done" => messages' = messages]_vars
  /\ [][StreamStep /\ chatPc' = "done" =>
          /\ finishCalls = 0 /\ finishCalls' = 1
          /\ Len(messages') = Len(messages) + 1
          /\ IsPrefix(messages, messages')
          /\ messages'[Len(messages')].role = "assistant"]_vars
  /\ [](finishCalls <= 1 /\ (chatPc = "done" <=> finishCalls = 1))

C13_Witness ==
  /\ chatPc = "done"
  /\ finishCalls = 1
  /\ \E i \in 1..Len(modelInput) :
       messages[i].tool = "pending-unregistered" /\ modelInput[i].tool = "none"

\* C14: every change of the history adds one turn at its end and leaves the
\* turns before it as they were; the turn executeTask adds is a user turn
\* whose text names the task.
C14_TaskAppendsUserTurn ==
  /\ [][messages' # messages =>
          Len(messages') = Len(messages) + 1 /\ IsPrefix(messages, messages')]_vars
  /\ [][messages' # messages /\ ~StreamStep =>
          /\ messages'[Len(messages')].role = "user"
          /\ messages'[Len(messages')].tool = "none"
          /\ messages'[Len(messages')].text
               \in {"hi"} \cup {TaskText(d) : d \in Descriptions}]_vars
  /\ [](\A i \in 1..Len(messages) :
          messages[i].text \in {TaskText(d) : d \in Descriptions}
            => messages[i].role = "user")

C14_Witness ==
  \E i \in 2..Len(messages) - 1 :
    /\ messages[i] = UserTurnOf(TaskText("backup"))
    /\ messages[i - 1].role = "assistant"
    /\ messages[i + 1].text = "hi"

C16_MissingSecretsReported ==
  /\ fetchLast.path = CheckPath
       => (fetchLast.success <=> fetchLast.env.apiKey \notin {Unset, ""})
  /\ fetchLast.path \in Paths \ {CheckPath} /\ fetchLast.env.apiKey \in {Unset, ""}
       => KeyMissing \in fetchLast.logged
  /\ fetchLast.path \in Paths /\ fetchLast.env.secret = Unset
       => SecretMissing \in fetchLast.logged

\* the two parts of C16 about the API key, which hold
C16_ApiKeyReported ==
  /\ fetchLast.path = CheckPath
       => (fetchLast.success <=> fetchLast.env.apiKey \notin {Unset, ""})
  /\ fetchLast.path \in Paths \ {CheckPath} /\ fetchLast.env.apiKey \in {Unset, ""}
       => KeyMissing \in fetchLast.logged /\ Len(errorLog) > 0

TypeOK ==
  /\ pc \in [Slots -> {"idle", "verify", "processing"}]
  /\ last.status \in {0, 200, 401, 405}
  /\ \A i \in 1..Len(events) : events[i].id \in EventIds
====
